---- MODULE Spec2Model ----
(***************************************************************************)
(* Verification model of prime31/bevy_prime31.                             *)
(*                                                                         *)
(*  - fps_controller::time_controller  (update_time)          SpecTime     *)
(*  - fps_controller::ultrakill        (controller_move)      SpecController*)
(*  - valve_maps::parse                (Map / MapEntity / ..) SpecParse    *)
(*  - valve_maps::generate             (brush_plane::build)   SpecGeometry *)
(*  - tween::tweenable                 (Tween, Sequence, ..)  SpecTween    *)
(*  - fps_controller plugins           (system sets)          SpecSchedule *)
(*                                                                         *)
(* Real numbers are fixed point integers; every unit is named below.       *)
(***************************************************************************)
EXTENDS Integers, Sequences, FiniteSets, TLC

VARIABLES
    \* ---- time_controller.rs ----
    time_state,       \* Local<TimeStopState>: [elapsed, stop_duration, time_scale]
    relative_speed,   \* Time::relative_speed, in units of 1/SpeedOne
    time_events,      \* Events<TimeScaleModificationEvent> not yet read by update_time
    stop_watch,       \* history: [active, d, acc, done] of the last accepted Stop(d)
    slow_watch,       \* history: [active, expect] the ramp a Slow(s) event promises
    \* ---- ultrakill/systems.rs, ultrakill/components.rs, input/systems.rs ----
    controller,       \* FpsController: the fields controller_move reads for jumping
    state,            \* FpsControllerState
    input,            \* FpsControllerInput::jump as left by the last controller_input run
    velocity_y,       \* Velocity::linvel.y after the variable height jump code, in tenths
    frame,            \* history: what the last controller_move run saw and did
    watch,            \* history across frames: frame time since grounded / since a jump
    \* ---- valve_maps: lib.rs, parse/ ----
    map_input,        \* the text handed to valve_maps::parse, a sequence of Symbols
    map_parsed,       \* what parse returned for it: [done, ok, map]
    \* ---- valve_maps: generate.rs, convert.rs ----
    brush_planes,     \* Brush::planes of the brush being built
    entity_fields,    \* MapEntity::fields of its entity, a set of <<key, value>>
    built,            \* the last brush_plane::build: its face, candidates and result
    \* ---- tween: tweenable.rs ----
    tweenable,        \* the Tween, Sequence or Tracks an animator owns
    target,           \* the animated component: what each lens last wrote to it
    completed_events, \* Events<TweenCompleted>: the user_data of each event sent
    tween_watch,      \* history: the last call on the tweenable and what it did
    \* ---- fps_controller: input/mod.rs, ultrakill/mod.rs ----
    systems,          \* where each system of the frame is: "waiting", "running", "done"
    frame_no,         \* the frame the schedule is running
    input_written,    \* the frame in which FpsControllerInput was last written
    input_read        \* the frame whose FpsControllerInput controller_move last read

time_vars == <<time_state, relative_speed, time_events, stop_watch, slow_watch>>

ctrl_vars == <<controller, state, input, velocity_y, frame, watch>>

parse_vars == <<map_input, map_parsed>>

geom_vars == <<brush_planes, entity_fields, built>>

tween_vars == <<tweenable, target, completed_events, tween_watch>>

sched_vars == <<systems, frame_no, input_written, input_read>>

vars == <<time_state, relative_speed, time_events, stop_watch, slow_watch,
          controller, state, input, velocity_y, frame, watch,
          map_input, map_parsed, brush_planes, entity_fields, built,
          tweenable, target, completed_events, tween_watch,
          systems, frame_no, input_written, input_read>>

(***************************************************************************)
(*                      fps_controller::time_controller                    *)
(***************************************************************************)

\* 1.0 of relative speed / time scale, in fixed point units
SpeedOne == 10000

\* 0.02, the literal of update_time, in units of 1/SpeedOne
SnapGap == (2 * SpeedOne) \div 100

\* most events that can be waiting for one run of update_time
MaxEvents == 2

\* stop durations an event may carry (raw time units) and raw frame deltas
StopLengths == {2, 3}
RawDeltas == {1, 2}

\* time scales a Slow event may carry: 0, 0.5, 0.9, 0.99 (within 0.02 of 1.0),
\* and 1.5 (not below 1.0)
SlowScales == {0, 5000, 9000, 9900, 15000}

Stop(length) == [kind |-> "Stop", value |-> length]
Slow(scale) == [kind |-> "Slow", value |-> scale]

TimeEvents == {Stop(d) : d \in StopLengths} \cup {Slow(s) : s \in SlowScales}

\* impl Default for TimeStopState
TimeStopStateDefault == [elapsed |-> 0, stop_duration |-> 0, time_scale |-> SpeedOne]

\* one arm of the match in the event loop: returns <<state, speed>>
ApplyEvent(st, speed, evt) ==
    IF evt.kind = "Stop"
    THEN IF evt.value > st.stop_duration
         THEN <<[st EXCEPT !.stop_duration = evt.value, !.elapsed = 0], 0>>
         ELSE <<st, speed>>
    ELSE <<[st EXCEPT !.time_scale = evt.value], speed>>

\* for evt in events.iter() { ... }
RECURSIVE ApplyEvents(_, _, _)
ApplyEvents(st, speed, evts) ==
    IF evts = <<>> THEN <<st, speed>>
    ELSE LET r == ApplyEvent(st, speed, Head(evts))
         IN ApplyEvents(r[1], r[2], Tail(evts))

\* if state.elapsed < state.stop_duration { ... }
StopStep(st, speed, raw_dt) ==
    IF st.elapsed < st.stop_duration
    THEN LET e == st.elapsed + raw_dt
         IN IF e >= st.stop_duration
            THEN <<TimeStopStateDefault, SpeedOne>>
            ELSE <<[st EXCEPT !.elapsed = e], speed>>
    ELSE <<st, speed>>

\* the value the slow ramp gives a time scale below 1.0
Ramp(scale) ==
    IF SpeedOne - scale <= SnapGap
    THEN SpeedOne
    ELSE scale + ((SpeedOne - scale) * 2) \div 100

\* if state.time_scale < 1.0 { ... time.set_relative_speed(state.time_scale) }
SlowStep(st, speed) ==
    IF st.time_scale < SpeedOne
    THEN LET ts == Ramp(st.time_scale)
         IN <<[st EXCEPT !.time_scale = ts], ts>>
    ELSE <<st, speed>>

\* the whole of update_time on the events `evts` with raw delta `raw_dt`
UpdateTimeResult(st, speed, evts, raw_dt) ==
    LET a == ApplyEvents(st, speed, evts)
        b == StopStep(a[1], a[2], raw_dt)
    IN SlowStep(b[1], b[2])

\* ---- history variables (what the events promise) ----

\* the Stop events of `evts` that update_time accepts, in order
RECURSIVE AcceptedStops(_, _)
AcceptedStops(dur, evts) ==
    IF evts = <<>> THEN <<>>
    ELSE LET e == Head(evts)
         IN IF e.kind = "Stop" /\ e.value > dur
            THEN <<e.value>> \o AcceptedStops(e.value, Tail(evts))
            ELSE AcceptedStops(dur, Tail(evts))

\* the scale of the last Slow event of `evts`, or -1
RECURSIVE LastSlow(_)
LastSlow(evts) ==
    IF evts = <<>> THEN -1
    ELSE LET r == LastSlow(Tail(evts))
         IN IF r # -1 THEN r
            ELSE IF Head(evts).kind = "Slow" THEN Head(evts).value ELSE -1

StopWatchNext(w, dur, evts, raw_dt) ==
    LET acc == AcceptedStops(dur, evts)
        w1 == IF acc = <<>> THEN [w EXCEPT !.done = FALSE]
              ELSE [active |-> TRUE, d |-> acc[Len(acc)], acc |-> 0, done |-> FALSE]
    IN IF w1.active
       THEN IF w1.acc + raw_dt >= w1.d
            THEN [active |-> FALSE, d |-> 0, acc |-> 0, done |-> TRUE]
            ELSE [w1 EXCEPT !.acc = w1.acc + raw_dt]
       ELSE w1

SlowWatchNext(w, evts) ==
    LET s == LastSlow(evts)
    IN IF s # -1 /\ s >= 0 /\ s < SpeedOne
       THEN [active |-> TRUE, expect |-> Ramp(s)]
       ELSE IF evts # <<>>
            THEN [active |-> FALSE, expect |-> 0]
            ELSE IF w.active
                 THEN [w EXCEPT !.expect = IF w.expect < SpeedOne THEN Ramp(w.expect) ELSE w.expect]
                 ELSE w

\* EventWriter<TimeScaleModificationEvent>::send from any other system
SendEvent ==
    /\ Len(time_events) < MaxEvents
    /\ \E e \in TimeEvents : time_events' = Append(time_events, e)
    /\ UNCHANGED <<time_state, relative_speed, stop_watch, slow_watch>>
    /\ UNCHANGED <<ctrl_vars, parse_vars, geom_vars, tween_vars, sched_vars>>

\* one run of the update_time system
UpdateTime ==
    \E raw_dt \in RawDeltas :
        LET r == UpdateTimeResult(time_state, relative_speed, time_events, raw_dt)
        IN /\ time_state' = r[1]
           /\ relative_speed' = r[2]
           /\ time_events' = <<>>
           /\ stop_watch' = StopWatchNext(stop_watch, time_state.stop_duration, time_events, raw_dt)
           /\ slow_watch' = SlowWatchNext(slow_watch, time_events)
           /\ UNCHANGED <<ctrl_vars, parse_vars, geom_vars, tween_vars, sched_vars>>

\* TimeManagerPlugin: the event queue and the update_time system
TimeNext == SendEvent \/ UpdateTime

\* C5: while the raw delta time accumulated since the last accepted Stop(d) is
\* below d, Time's relative speed is 0 at the end of each update_time run, and
\* it is 1.0 at the end of the run in which the stop completes.
C5_StopFreezesTime ==
    /\ (stop_watch.active => relative_speed = 0)
    /\ (stop_watch.done => relative_speed = SpeedOne)

\* C6: after a Slow(s) event with 0 <= s < 1 and no later events, the relative
\* speed at the end of each update_time run follows the ramp that starts from
\* s and closes 2% of the gap to 1.0 per run (snapping to 1.0 within 0.02).
C6_SlowRamp ==
    slow_watch.active => relative_speed = slow_watch.expect

(***************************************************************************)
(*          fps_controller::input and fps_controller::ultrakill            *)
(*                                                                         *)
(* Time is in units of 1/TimeOne s (10 ms), speed in tenths.               *)
(*                                                                         *)
(* controller_move is modelled on the variables its jump logic reads and   *)
(* writes: the timers, cooldowns and the flags jumping and falling of      *)
(* FpsControllerState, and velocity.linvel.y through the variable height   *)
(* jump.  The slide, dash and ground slam code writes two of them, and is  *)
(* modelled by exactly those writes, each under an input that stands for   *)
(* the slide/dash state it depends on:                                     *)
(*   - a ground slam sets falling (lines 144-159), input slam;             *)
(*   - Move() resets current_wall_jumps unless state.boost returned to     *)
(*     Dodge() (lines 344-347), input boost.                               *)
(* The results of the physics queries are inputs of each run as well.      *)
(***************************************************************************)

\* the 1.0 that fall_time is compared with (systems.rs:112), in 10 ms
TimeOne == 100

\* impl Default for FpsController, the fields the jump logic reads
jump_down_speed == 2
min_jump_duration == (2 * TimeOne) \div 10
jump_stop_force == 30
jump_buffer_duration == (10 * TimeOne) \div 100
coyote_timer_duration == (2 * TimeOne) \div 10

\* FpsController::jump_time: the default 0.5, and 0 ("turns off variable height jumps")
JumpTimes == {0, (5 * TimeOne) \div 10}

\* time.delta_seconds() of a frame: 40 ms and 80 ms
Dts == {4, 8}

\* Velocity::linvel.y as the physics step leaves it: falling, rising
VelYs == {0 - 30, 50}

\* ---- CooldownTimer ----

\* CooldownTimer::new
CooldownTimerNew(duration) ==
    [elapsed |-> 0, duration |-> duration, finished |-> FALSE, finished_this_tick |-> FALSE]

\* CooldownTimer::is_complete
is_complete(t) == t.elapsed > t.duration

\* CooldownTimer::tick
tick(t, dt) ==
    IF t.finished
    THEN [t EXCEPT !.finished_this_tick = FALSE]
    ELSE LET t1 == [t EXCEPT !.elapsed = t.elapsed + dt]
         IN IF is_complete(t1)
            THEN [t1 EXCEPT !.finished = TRUE, !.finished_this_tick = TRUE]
            ELSE t1

\* CooldownTimer::reset
reset(t) == [t EXCEPT !.elapsed = 0, !.finished = FALSE]

\* CooldownTimer::reset_with_duration
reset_with_duration(t, duration) == [reset(t) EXCEPT !.duration = duration]

\* the durations controller_move passes to jump_cooldown.reset_with_duration
JumpCooldownAfterJump == (25 * TimeOne) \div 100
JumpCooldownAfterWallJump == (1 * TimeOne) \div 10

\* FpsControllerState::new
FpsControllerStateNew ==
    [jumping |-> FALSE, falling |-> FALSE, fall_time |-> 0,
     jump_cooldown |-> CooldownTimerNew((2 * TimeOne) \div 10),
     not_jumping_cooldown |-> CooldownTimerNew((25 * TimeOne) \div 100),
     jump_timer |-> 0, jump_buffer_timer |-> 0, coyote_timer |-> 0,
     current_wall_jumps |-> 0]

\* FpsControllerState::tick_timers
tick_timers(s, dt) ==
    LET s1 == [s EXCEPT !.jump_cooldown = tick(s.jump_cooldown, dt),
                        !.not_jumping_cooldown = tick(s.not_jumping_cooldown, dt)]
    IN IF s1.not_jumping_cooldown.finished_this_tick
       THEN [s1 EXCEPT !.jumping = FALSE]
       ELSE s1

Max(a, b) == IF a > b THEN a ELSE b
Min(a, b) == IF a < b THEN a ELSE b

\* ---- controller_input (input/systems.rs) ----

InputStateDefault == [pressed |-> FALSE, down |-> FALSE, released |-> FALSE]

\* just_pressed / pressed / just_released of one action whose key is now `down`
ReadAction(old, down) ==
    [pressed |-> down /\ ~old.down, down |-> down, released |-> ~down /\ old.down]

\* ---- controller_move (ultrakill/systems.rs), section by section ----
\* Each section maps the working record c = [s: FpsControllerState, vy:
\* velocity.linvel.y, f: history of this run] to its value after the section.

FrameDefault ==
    [ran |-> FALSE, on_ground |-> FALSE, started |-> "none", coyote_case |-> "none",
     second_jump |-> FALSE, early_release |-> FALSE, jump_down |-> FALSE,
     stop_force_applied |-> FALSE, timer_cleared |-> FALSE, jump_down_added |-> FALSE]

\* lines 87-91: if on_ground { ... }
Grounded(c) ==
    [c EXCEPT !.s.fall_time = 0, !.s.coyote_timer = coyote_timer_duration]

\* line 92
CoyoteDecay(timer, dt) == Max(timer - dt, 0)

\* lines 99-110: the variable height jump
JumpHold(c, ctl, in, dt) ==
    IF c.s.jump_timer > 0
    THEN IF in.jump.down
         THEN [c EXCEPT !.vy = c.vy + jump_down_speed,
                        !.s.jump_timer = Max(c.s.jump_timer - dt, 0),
                        !.f.jump_down_added = TRUE]
         ELSE LET stop == ctl.jump_time - c.s.jump_timer > min_jump_duration /\ c.vy > 0
              IN [c EXCEPT !.vy = IF stop THEN 0 - jump_stop_force ELSE c.vy,
                           !.f.stop_force_applied = stop,
                           !.f.timer_cleared = TRUE,
                           !.s.jump_timer = 0]
    ELSE c

\* lines 112-119: fall_time (1.0 is TimeOne; fall_speed is only read by the camera shake)
FallTime(c, dt) ==
    IF c.s.fall_time < TimeOne
    THEN LET ft == c.s.fall_time + dt * 5
         IN [c EXCEPT !.s.fall_time = ft, !.s.falling = (ft > TimeOne) \/ c.s.falling]
    ELSE c

\* lines 91-120: } else { ... }
Airborne(c, ctl, in, dt) ==
    LET c1 == [c EXCEPT !.s.coyote_timer = CoyoteDecay(c.s.coyote_timer, dt),
                        !.s.jump_buffer_timer =
                            IF in.jump.pressed THEN jump_buffer_duration
                            ELSE Max(c.s.jump_buffer_timer - dt, 0)]
    IN FallTime(JumpHold(c1, ctl, in, dt), dt)

\* line 122
JumpRequested(c, in) == in.jump.pressed \/ c.s.jump_buffer_timer > 0

\* lines 129-140: falling and hit ground this frame
Landing(c, env) ==
    IF env.on_ground /\ c.s.falling /\ is_complete(c.s.jump_cooldown)
    THEN [c EXCEPT !.s.falling = FALSE]
    ELSE c

\* lines 144-159: a ground slam starts (slide pressed in the air, far from the
\* ground, no heavy fall yet: the input slam)
GroundSlam(c, env) ==
    IF ~env.on_ground /\ env.slam /\ 2 * c.s.fall_time > TimeOne
    THEN [c EXCEPT !.s.falling = TRUE]
    ELSE c

\* a coyote jump that does not look at coyote_timer
CoyoteJumpNoTimer(c, env, jump_requested) ==
    jump_requested /\ ~env.on_ground /\ ~env.on_wall

\* line 169
CoyoteJump(c, env, jump_requested) ==
    jump_requested /\ ~env.on_ground /\ c.s.coyote_timer > 0 /\ ~env.on_wall

\* line 170
NormalJump(c, env, jump_requested) ==
    jump_requested /\ ~c.s.falling /\ env.on_ground

\* a jump timer that starts from the default jump_time whatever the controller says
JumpTimerDefault(ctl) == (5 * TimeOne) \div 10

\* lines 172 and 227: state.jump_timer = controller.jump_time
JumpTimerAtStart(ctl) == ctl.jump_time

\* lines 171-207: a ground or coyote jump starts
StartJump(c, ctl, env, jump_requested) ==
    LET coyote_jump == CoyoteJump(c, env, jump_requested)
        normal_jump == NormalJump(c, env, jump_requested)
    IN IF (coyote_jump \/ normal_jump) /\ is_complete(c.s.jump_cooldown)
       THEN [c EXCEPT !.s = [c.s EXCEPT !.jump_timer = JumpTimerAtStart(ctl),
                                        !.jump_buffer_timer = 0,
                                        !.current_wall_jumps = 0,
                                        !.jumping = TRUE,
                                        !.falling = TRUE,
                                        !.not_jumping_cooldown = reset(c.s.not_jumping_cooldown),
                                        !.jump_cooldown =
                                            reset_with_duration(c.s.jump_cooldown, JumpCooldownAfterJump)],
                     !.f.started = IF env.on_ground THEN "ground" ELSE "coyote"]
       ELSE c

\* lines 226-244: a wall jump starts
WallJump(c, ctl, env, jump_requested) ==
    IF jump_requested /\ is_complete(c.s.jump_cooldown) /\ c.s.current_wall_jumps < 3
    THEN [c EXCEPT !.s = [c.s EXCEPT !.jump_timer = JumpTimerAtStart(ctl),
                                     !.jump_buffer_timer = 0,
                                     !.jumping = TRUE,
                                     !.not_jumping_cooldown = reset(c.s.not_jumping_cooldown),
                                     !.jump_cooldown =
                                         reset_with_duration(c.s.jump_cooldown, JumpCooldownAfterWallJump),
                                     !.current_wall_jumps = c.s.current_wall_jumps + 1],
                   !.f.started = "wall"]
    ELSE c

\* lines 209-245: if !on_ground && on_wall { ... }
OnWall(c, ctl, env, jump_requested) ==
    IF ~env.on_ground /\ env.on_wall
    THEN WallJump(c, ctl, env, jump_requested)
    ELSE c

\* lines 344-347: Move() runs unless state.boost (the input boost)
Move(c, env) ==
    IF ~env.boost /\ env.on_ground /\ ~c.s.jumping
    THEN [c EXCEPT !.s.current_wall_jumps = 0]
    ELSE c

\* history: what an airborne, off-wall jump request meets in this run, by the
\* frame time since the last grounded frame: "live" (less than
\* coyote_timer_duration, jump cooldown complete), "expired" (not less), "none"
CoyoteCase(c, env, jump_requested, since_ground) ==
    IF ~env.on_ground /\ ~env.on_wall /\ jump_requested
    THEN IF since_ground >= coyote_timer_duration THEN "expired"
         ELSE IF is_complete(c.s.jump_cooldown) THEN "live" ELSE "none"
    ELSE "none"

\* history: the jump button is released in the air, moving upward, while a
\* jump is in progress and before min_jump_duration has passed since it started
EarlyRelease(s, ctl, in, env, since_jump) ==
    /\ ctl.jump_time > 0 /\ s.jump_timer > 0
    /\ ~env.on_ground /\ env.vy0 > 0
    /\ ~in.jump.down
    /\ since_jump < min_jump_duration

\* the body of controller_move for the one player entity
ControllerMoveResult(s, ctl, in, w, env) ==
    LET dt == env.dt
        since_ground == IF env.on_ground THEN 0
                        ELSE Min(w.since_ground + dt, coyote_timer_duration)
        since_jump == Min(w.since_jump + dt, min_jump_duration)
        c0 == [s |-> tick_timers(s, dt), vy |-> env.vy0,
               f |-> [FrameDefault EXCEPT !.ran = TRUE,
                                          !.on_ground = env.on_ground,
                                          !.jump_down = in.jump.down,
                                          !.early_release = EarlyRelease(s, ctl, in, env, since_jump)]]
        c1 == IF env.on_ground THEN Grounded(c0) ELSE Airborne(c0, ctl, in, dt)
        jump_requested == JumpRequested(c1, in)
        c2 == GroundSlam(Landing(c1, env), env)
        c3 == [c2 EXCEPT !.f.coyote_case = CoyoteCase(c2, env, jump_requested, since_ground)]
        c4 == OnWall(StartJump(c3, ctl, env, jump_requested), ctl, env, jump_requested)
        c6 == Move(c4, env)
    IN [c6 EXCEPT !.f.second_jump = c6.f.started = "coyote" /\ w.jumped /\ ~env.on_ground]

\* history across frames, after a run with inputs env and result c: the frame
\* time since the last grounded frame and since the last jump started (both
\* capped), and whether a jump started in or after the last grounded frame
WatchNext(w, env, c) ==
    [since_ground |-> IF env.on_ground THEN 0
                      ELSE Min(w.since_ground + env.dt, coyote_timer_duration),
     since_jump |-> IF c.f.started # "none" THEN 0
                    ELSE Min(w.since_jump + env.dt, min_jump_duration),
     jumped |-> (c.f.started # "none") \/ (w.jumped /\ ~env.on_ground)]

\* an input that nothing can read in a frame is left at one value
Opt(relevant) == IF relevant THEN BOOLEAN ELSE {FALSE}

\* what the ground cast and the wall intersection can return together
\* (on_wall is read only when the ground cast misses)
Physics == {[on_ground |-> TRUE, on_wall |-> FALSE],
            [on_ground |-> FALSE, on_wall |-> FALSE],
            [on_ground |-> FALSE, on_wall |-> TRUE]}

\* one frame of the player: controller_input (FpsControllerStages::Input) and
\* then controller_move (FpsControllerStages::Logic); the sets are chained
ControllerFrame ==
    \E jump_key \in BOOLEAN, dt \in Dts, ph \in Physics, vy0 \in VelYs :
       \E slam \in Opt(~ph.on_ground /\ ~state.falling),
          boost \in Opt(ph.on_ground /\ state.current_wall_jumps > 0) :
          LET in == [jump |-> ReadAction(input.jump, jump_key)]
              env == [dt |-> dt, on_ground |-> ph.on_ground, on_wall |-> ph.on_wall,
                      vy0 |-> vy0, slam |-> slam, boost |-> boost]
              c == ControllerMoveResult(state, controller, in, watch, env)
          IN /\ input' = in
             /\ state' = c.s
             /\ velocity_y' = c.vy
             /\ frame' = c.f
             /\ watch' = WatchNext(watch, env, c)
             /\ UNCHANGED controller
             /\ UNCHANGED <<time_vars, parse_vars, geom_vars, tween_vars, sched_vars>>

\* UltrakillControllerPlugin: controller_move runs once a frame
ControllerNext == ControllerFrame

(***************************************************************************)
(*                    Properties of the jump logic                         *)
(***************************************************************************)

\* C1: coyote time. In a run of controller_move where the player is airborne
\* and off the wall and a jump is requested: if less than coyote_timer_duration
\* of frame time has passed since the last grounded frame and the jump cooldown
\* is complete, a jump starts as a grounded jump does (jumping and falling set,
\* jump_timer = jump_time); if coyote_timer_duration or more has passed, no
\* jump starts.
C1_CoyoteTime ==
    /\ frame.coyote_case = "live" =>
          /\ frame.started = "coyote"
          /\ state.jumping /\ state.falling
          /\ state.jump_timer = controller.jump_time
    /\ frame.started = "ground" =>
          /\ state.jumping /\ state.falling
          /\ state.jump_timer = controller.jump_time
    /\ frame.coyote_case = "expired" => frame.started = "none"

\* a coyote jump started in the last run
C1_Witness == frame.coyote_case = "live" /\ frame.started = "coyote"

\* C2: in every frame in which a coyote jump starts, no jump of any kind has
\* started since the last frame in which the player was on the ground.
C2_CoyoteOnlyFromLedge == ~frame.second_jump

\* C3: when jump_time > 0, a jump is in progress, the player is airborne and
\* moving upward and the jump button is released before min_jump_duration has
\* passed since the jump started, jump_stop_force is applied in that frame
\* (velocity.y = -jump_stop_force) and the jump timer is cleared.
C3_EarlyReleaseStops ==
    frame.early_release =>
        /\ frame.stop_force_applied
        /\ velocity_y = 0 - jump_stop_force
        /\ frame.timer_cleared

\* C4: with jump_time = 0, jump_timer is 0 in every state, and no run adds
\* jump_down_speed or applies jump_stop_force.
C4_JumpTimeZero ==
    controller.jump_time = 0 =>
        /\ state.jump_timer = 0
        /\ ~frame.jump_down_added
        /\ ~frame.stop_force_applied
        /\ ~frame.timer_cleared

\* with jump_time = 0, a jump has started and the button is down in the air
C4_Witness ==
    /\ controller.jump_time = 0
    /\ watch.jumped /\ frame.ran /\ ~frame.on_ground /\ frame.jump_down

(***************************************************************************)
(*                     valve_maps::parse (lib.rs, parse/)                  *)
(*                                                                         *)
(* The input is a sequence of symbols: "LB" and "RB" are the braces, "Q"   *)
(* a double quote, "BS" a backslash, "NL" a line ending (which is          *)
(* whitespace too), "CM" the two slashes that open a comment, and "P" the  *)
(* text of one brush plane (three points, texture and alignment).          *)
(* A parser takes the input i and                                          *)
(* the position p of the first symbol not yet consumed and returns         *)
(* [ok, rest, val], rest being the position its remaining input starts at. *)
(***************************************************************************)

Symbols == {"LB", "RB", "Q", "BS", "NL", "CM", "P"}

\* the longest input
MaxLen == 6

At(i, p, c) == p <= Len(i) /\ i[p] = c

Ok(rest, val) == [ok |-> TRUE, rest |-> rest, val |-> val]
Err == [ok |-> FALSE, rest |-> 0, val |-> <<>>]

\* nom's not_line_ending: everything up to the next line ending or the end
RECURSIVE not_line_ending(_, _)
not_line_ending(i, p) ==
    IF p <= Len(i) /\ i[p] # "NL" THEN not_line_ending(i, p + 1) ELSE p

\* shared.rs comment: preceded(tag("//"), not_line_ending)
comment(i, p) ==
    IF At(i, p, "CM") THEN Ok(not_line_ending(i, p + 1), <<>>) ELSE Err

\* shared.rs separator, after its alt has tried a comment (c) at p: a comment
\* counts only with the line ending that terminates it
RECURSIVE separator(_, _)
comment_line(i, p, c) ==
    IF c.ok /\ At(i, c.rest, "NL") THEN separator(i, c.rest + 1) ELSE p

\* shared.rs separator: whitespace and comments that end in a line ending, as
\* many as there are; it consumes nothing rather than fail
separator(i, p) ==
    IF At(i, p, "NL") THEN separator(i, p + 1) ELSE comment_line(i, p, comment(i, p))

\* shared.rs maybe_sep_terminated, terminated(parsed, opt(separator)), on the
\* result r of the parser it wraps
maybe_sep_terminated(i, r) == IF r.ok THEN Ok(separator(i, r.rest), r.val) ELSE Err

\* common.rs quoted_string lines 62-72, the scan for the closing quote: a
\* quote ends it unless escaped is set; a backslash sets escaped, any other
\* character clears it
RECURSIVE take_while_unquoted(_, _, _)
take_while_unquoted(i, p, escaped) ==
    IF p > Len(i) THEN p
    ELSE IF i[p] = "Q" /\ ~escaped THEN p
    ELSE take_while_unquoted(i, p + 1, i[p] = "BS")

\* common.rs quoted_string lines 74-78: the closing quote at end, for the
\* string opened at p
closing_quote(i, p, end) ==
    IF At(i, end, "Q") THEN Ok(end + 1, SubSeq(i, p + 1, end - 1)) ELSE Err

\* common.rs quoted_string
quoted_string(i, p) ==
    IF At(i, p, "Q") THEN closing_quote(i, p, take_while_unquoted(i, p + 1, FALSE)) ELSE Err

\* nom's pair on the results k and v of its two parsers
pair(k, v) == IF k.ok /\ v.ok THEN Ok(v.rest, <<k.val, v.val>>) ELSE Err

\* the value of a key/value pair: the second parser of the pair runs where
\* the first one stopped
Value(i, k) == IF k.ok THEN pair(k, quoted_string(i, k.rest)) ELSE Err

\* shared.rs line 149: pair(maybe_sep_terminated(quoted_string), quoted_string)
KeyValue(i, p) == Value(i, maybe_sep_terminated(i, quoted_string(i, p)))

\* HashMap::insert on a map held as a set of <<key, value>>
Insert(fields, kv) == {e \in fields : e[1] # kv[1]} \cup {kv}

\* Fields::parse, one round of fold_many0 on the result kv of its parser
RECURSIVE Fields_parse(_, _, _)
Fields_fold(i, p, acc, kv) ==
    IF kv.ok THEN Fields_parse(i, kv.rest, Insert(acc, kv.val)) ELSE Ok(p, acc)

\* Fields::parse: fold_many0 of separator terminated key/value pairs
Fields_parse(i, p, acc) ==
    Fields_fold(i, p, acc, maybe_sep_terminated(i, KeyValue(i, p)))

\* Plane::parse
Plane_parse(i, p) == IF At(i, p, "P") THEN Ok(p + 1, "P") ELSE Err

\* Brush::parse line 308, one round of many0 on the result r of its parser
RECURSIVE Planes(_, _, _)
Planes_many0(i, p, acc, r) ==
    IF r.ok THEN Planes(i, r.rest, Append(acc, r.val)) ELSE Ok(p, acc)

\* Brush::parse line 308: many0(maybe_sep_terminated(parse))
Planes(i, p, acc) ==
    Planes_many0(i, p, acc, maybe_sep_terminated(i, Plane_parse(i, p)))

\* Brush::parse line 309: pair(opt(separator), char('}')) after the planes
Brush_close(i, planes, close) ==
    IF At(i, close, "RB") THEN Ok(close + 1, [planes |-> planes.val]) ELSE Err

\* Brush::parse lines 307-308: the planes, then the closing brace
Brush_planes(i, planes) == Brush_close(i, planes, separator(i, planes.rest))

\* Brush::parse
Brush_parse(i, p) ==
    IF At(i, p, "LB") THEN Brush_planes(i, Planes(i, separator(i, p + 1), <<>>)) ELSE Err

\* MapEntity::parse line 179, one round of many0 on the result r of its parser
RECURSIVE Brushes(_, _, _)
Brushes_many0(i, p, acc, r) ==
    IF r.ok THEN Brushes(i, r.rest, Append(acc, r.val)) ELSE Ok(p, acc)

\* MapEntity::parse line 179: many0(maybe_sep_terminated(parse))
Brushes(i, p, acc) ==
    Brushes_many0(i, p, acc, maybe_sep_terminated(i, Brush_parse(i, p)))

\* MapEntity::parse line 181: char('}') after the fields and the brushes
MapEntity_close(i, fields, brushes) ==
    IF At(i, brushes.rest, "RB")
    THEN Ok(brushes.rest + 1, [fields |-> fields.val, brushes |-> brushes.val])
    ELSE Err

\* MapEntity::parse lines 177-180: the brushes start where the fields stopped
MapEntity_fields(i, fields) ==
    MapEntity_close(i, fields, Brushes(i, fields.rest, <<>>))

\* MapEntity::parse
MapEntity_parse(i, p) ==
    IF At(i, p, "LB")
    THEN MapEntity_fields(i, maybe_sep_terminated(i, Fields_parse(i, separator(i, p + 1), {})))
    ELSE Err

\* Map::parse line 62, one round of many1 on the result r of its parser
RECURSIVE Entities(_, _, _)
Entities_many1(i, p, acc, r) ==
    IF r.ok THEN Entities(i, r.rest, Append(acc, r.val))
    ELSE IF acc = <<>> THEN Err ELSE Ok(p, acc)

\* Map::parse line 62: many1(maybe_sep_terminated(parse))
Entities(i, p, acc) ==
    Entities_many1(i, p, acc, maybe_sep_terminated(i, MapEntity_parse(i, p)))

\* Map::parse line 62: map(many1(...), |entities| Map { entities })
Map_entities(r) == IF r.ok THEN Ok(r.rest, [entities |-> r.val]) ELSE Err

\* Map::parse
Map_parse(i, p) == Map_entities(Entities(i, separator(i, p), <<>>))

NoMap == [entities |-> <<>>]

\* lib.rs parse without all_consuming: whatever Map::parse leaves unread is
\* dropped
parse_prefix_result(r) ==
    IF r.ok THEN [done |-> TRUE, ok |-> TRUE, map |-> r.val]
    ELSE [done |-> TRUE, ok |-> FALSE, map |-> NoMap]

\* nom's all_consuming on the result r of its parser, for an input of n symbols
all_consuming(n, r) ==
    IF r.ok /\ r.rest = n + 1
    THEN [done |-> TRUE, ok |-> TRUE, map |-> r.val]
    ELSE [done |-> TRUE, ok |-> FALSE, map |-> NoMap]

\* Map::parse with whatever it leaves unread dropped
parse_prefix(i) == parse_prefix_result(Map_parse(i, 1))

\* lib.rs parse: all_consuming(Map::parse)
parse(i) == all_consuming(Len(i), Map_parse(i, 1))

Inputs == UNION {[1..n -> Symbols] : n \in 0..MaxLen}

\* a call of valve_maps::parse on the input
Parse ==
    /\ ~map_parsed.done
    /\ map_parsed' = parse(map_input)
    /\ UNCHANGED map_input
    /\ UNCHANGED <<time_vars, ctrl_vars, geom_vars, tween_vars, sched_vars>>

(***************************************************************************)
(* The grammar of a map, read one symbol at a time: where the reader is    *)
(* (st), whether it is inside a comment (cm) or behind a backslash (esc),  *)
(* and the entities and brushes closed so far.                             *)
(***************************************************************************)

GrammarStart == [st |-> "map", cm |-> FALSE, esc |-> FALSE, entities |-> 0, brushes |-> 0, points |-> 0,
                 solid |-> FALSE]

GrammarStep(g, c) ==
    IF g.st = "reject" THEN g
    ELSE IF g.cm THEN [g EXCEPT !.cm = (c # "NL")]
    ELSE IF g.st \in {"key", "value"}
         THEN IF c = "Q" /\ ~g.esc
              THEN [g EXCEPT !.st = IF g.st = "key" THEN "pair" ELSE "entity"]
              ELSE [g EXCEPT !.esc = (c = "BS")]
    ELSE IF c = "NL" THEN g
    ELSE IF c = "CM" THEN [g EXCEPT !.cm = TRUE]
    ELSE CASE g.st = "map" /\ c = "LB" -> [g EXCEPT !.st = "entity", !.solid = FALSE]
           [] g.st = "entity" /\ c = "Q" -> [g EXCEPT !.st = "key"]
           [] g.st = "pair" /\ c = "Q" -> [g EXCEPT !.st = "value"]
           [] g.st \in {"entity", "brushes"} /\ c = "LB" -> [g EXCEPT !.st = "brush"]
           [] g.st = "brush" /\ c = "P" -> g
           [] g.st = "brush" /\ c = "RB" ->
                [g EXCEPT !.st = "brushes", !.brushes = g.brushes + 1, !.solid = TRUE]
           [] g.st \in {"entity", "brushes"} /\ c = "RB" ->
                [g EXCEPT !.st = "map", !.entities = g.entities + 1,
                          !.points = g.points + IF g.solid THEN 0 ELSE 1]
           [] OTHER -> [g EXCEPT !.st = "reject"]

RECURSIVE GrammarRun(_, _, _)
GrammarRun(g, i, p) ==
    IF p > Len(i) THEN g ELSE GrammarRun(GrammarStep(g, i[p]), i, p + 1)

\* the whole input is separators and one or more entities
InGrammar(i) ==
    LET g == GrammarRun(GrammarStart, i, 1)
    IN g.st = "map" /\ ~g.cm /\ g.entities >= 1

RECURSIVE CountBrushes(_, _)
CountBrushes(entities, n) ==
    IF n = 0 THEN 0 ELSE Len(entities[n].brushes) + CountBrushes(entities, n - 1)

PointEntities(entities) == {n \in 1..Len(entities) : entities[n].brushes = <<>>}

ParseNext == Parse

(***************************************************************************)
(*              valve_maps::generate (brush_plane::build)                  *)
(*                                                                         *)
(* Points and directions are triples.  f32 values are held as the real     *)
(* numbers they stand for: a point is [num, den], the triple num divided   *)
(* by den > 0 in lowest terms, so that == on points is equality of the     *)
(* records; a unit normal is [num, den] as well, den being the length of   *)
(* num.  Vertex normals are triples in units of CMP_EPSILON, rounded down  *)
(* where normalize() divides by a length.  The brushes are chosen so that  *)
(* every plane normal has a whole length.  Vertex::tangent and Vertex::uv  *)
(* are left out: nothing in brush_plane::build reads them.                 *)
(***************************************************************************)

Dot(a, b) == a[1] * b[1] + a[2] * b[2] + a[3] * b[3]

Cross(a, b) ==
    <<a[2] * b[3] - a[3] * b[2], a[3] * b[1] - a[1] * b[3], a[1] * b[2] - a[2] * b[1]>>

Plus(a, b) == <<a[1] + b[1], a[2] + b[2], a[3] + b[3]>>

Minus(a, b) == <<a[1] - b[1], a[2] - b[2], a[3] - b[3]>>

Times(k, a) == <<k * a[1], k * a[2], k * a[3]>>

Abs(x) == IF x < 0 THEN 0 - x ELSE x

RECURSIVE Gcd(_, _)
Gcd(a, b) == IF b = 0 THEN a ELSE Gcd(b, a % b)

Lcm(a, b) == (a \div Gcd(a, b)) * b

\* the whole part of the square root
RECURSIVE Newton(_, _)
Newton(n, x) ==
    LET y == (x + n \div x) \div 2 IN IF y >= x THEN x ELSE Newton(n, y)

Sqrt(n) == IF n = 0 THEN 0 ELSE Newton(n, n)

\* the point num / den in lowest terms
Point(num, den) ==
    LET g == Gcd(Gcd(Gcd(Abs(num[1]), Abs(num[2])), Abs(num[3])), den)
    IN [num |-> <<num[1] \div g, num[2] \div g, num[3] \div g>>, den |-> den \div g]

None == [some |-> FALSE]
Some(v) == [some |-> TRUE, val |-> v]

\* const CMP_EPSILON: f32 = 0.001
CMP_EPSILON == [num |-> 1, den |-> 1000]

\* 1.0 of a vertex normal
NormOne == CMP_EPSILON.den

\* ---- parse/formats/shared.rs: Fields and Plane ----

\* Fields::get_property on fields held as a set of <<key, value>>
get_property(fields, name) ==
    IF \E e \in fields : e[1] = name
    THEN Some((CHOOSE e \in fields : e[1] = name)[2])
    ELSE None

\* Plane::normal before normalize(): v0v2.cross(v0v1)
PlaneCross(plane) ==
    Cross(Minus(plane.points[3], plane.points[1]), Minus(plane.points[2], plane.points[1]))

\* Plane::normal
normal(plane) ==
    LET c == PlaneCross(plane) IN [num |-> c, den |-> Sqrt(Dot(c, c))]

\* Plane::dist, over the same den as the normal
dist(plane) == Dot(PlaneCross(plane), plane.points[1])

\* a plane whose three points define a half-space exactly
Proper(plane) ==
    LET n == normal(plane) IN n.den > 0 /\ n.den * n.den = Dot(n.num, n.num)

\* ---- generate.rs ----

\* intersect_brush_planes
intersect_brush_planes(p0, p1, p2) ==
    LET n0 == normal(p0)
        n1 == normal(p1)
        n2 == normal(p2)
        len == n0.den * n1.den * n2.den
        \* denom * len
        denom == Dot(Cross(n0.num, n1.num), n2.num)
        \* the numerator of line 509, times len
        sum == Plus(Plus(Times(dist(p0), Cross(n1.num, n2.num)),
                         Times(dist(p1), Cross(n2.num, n0.num))),
                    Times(dist(p2), Cross(n0.num, n1.num)))
    IN IF denom * CMP_EPSILON.den < len * CMP_EPSILON.num
       THEN None
       ELSE Some(Point(sum, denom))

\* a hull test that lets every vertex pass
vertex_in_space(vertex, hull) == TRUE

\* vertex_in_hull
vertex_in_hull(vertex, hull) ==
    \A k \in 1..Len(hull) :
        LET n == normal(hull[k])
            \* proj and dist, times n.den * vertex.den
            proj == Dot(n.num, vertex.num)
            d == dist(hull[k]) * vertex.den
        IN ~(/\ proj > d
             /\ (proj - d) * CMP_EPSILON.den > CMP_EPSILON.num * n.den * vertex.den)

\* Vec3::normalize of a triple in units of 1 / NormOne
normalize(v) ==
    LET len == Sqrt(Dot(v, v))
    IN IF len = 0 THEN v
       ELSE <<(v[1] * NormOne) \div len, (v[2] * NormOne) \div len, (v[3] * NormOne) \div len>>

\* Plane::normal as a vertex normal
UnitNormal(plane) ==
    LET n == normal(plane)
    IN <<(n.num[1] * NormOne) \div n.den, (n.num[2] * NormOne) \div n.den,
         (n.num[3] * NormOne) \div n.den>>

\* the values of _phong_angle that parse::<f32>() takes, with the threshold of
\* line 535, cos((phong_angle + 0.01) * ONE_DEGREE), in units of 1 / NormOne^2
PhongThreshold == [a \in {"60"} |-> 499849]

\* phong_normal
phong_normal(p0, p1, p2, phong_angle) ==
    LET n0 == UnitNormal(p0)
        n1 == UnitNormal(p1)
        n2 == UnitNormal(p2)
    IN IF phong_angle.some /\ phong_angle.val \in DOMAIN PhongThreshold
       THEN LET threshold == PhongThreshold[phong_angle.val]
                with1 == IF Dot(n0, n1) > threshold THEN Plus(n0, n1) ELSE n0
                with2 == IF Dot(n0, n2) > threshold THEN Plus(with1, n2) ELSE with1
            IN normalize(with2)
       ELSE normalize(Plus(Plus(n0, n1), n2))

\* vertex_normal
vertex_normal(fields, p0, p1, p2) ==
    IF get_property(fields, "_phong") = Some("1")
    THEN phong_normal(p0, p1, p2, get_property(fields, "_phong_angle"))
    ELSE UnitNormal(p0)

\* build_plane_vertex
build_plane_vertex(fields, planes, plane, p1, p2) ==
    LET vertex == intersect_brush_planes(plane, p1, p2)
    IN IF vertex.some /\ vertex_in_hull(vertex.val, planes)
       THEN Some([vertex |-> vertex.val, normal |-> vertex_normal(fields, plane, p1, p2)])
       ELSE None

\* brush_plane::build lines 343-350: a candidate for every p1 and p2 of planes,
\* p1 in the outer loop; k counts the pairs from 0
RECURSIVE PlaneVertices(_, _, _, _)
PlaneVertices(fields, planes, plane, k) ==
    IF k >= Len(planes) * Len(planes) THEN <<>>
    ELSE LET p1 == planes[(k \div Len(planes)) + 1]
             p2 == planes[(k % Len(planes)) + 1]
             v == build_plane_vertex(fields, planes, plane, p1, p2)
             rest == PlaneVertices(fields, planes, plane, k + 1)
         IN IF v.some THEN <<v.val>> \o rest ELSE rest

\* lines 364-369: the fold over the candidates after the i-th
RECURSIVE PhongFold(_, _, _)
PhongFold(acc, plane_vertices, j) ==
    IF j > Len(plane_vertices) THEN acc
    ELSE PhongFold(IF plane_vertices[j].vertex = acc.vertex
                   THEN [acc EXCEPT !.normal = plane_vertices[j].normal]
                   ELSE acc,
                   plane_vertices, j + 1)

\* lines 352-378: unique_vertices, from the i-th candidate on
RECURSIVE UniqueVertices(_, _, _)
UniqueVertices(fields, plane_vertices, i) ==
    IF i > Len(plane_vertices) THEN <<>>
    ELSE LET vertex == plane_vertices[i]
             rest == UniqueVertices(fields, plane_vertices, i + 1)
         IN IF \E j \in (i + 1)..Len(plane_vertices) :
                    plane_vertices[j].vertex = vertex.vertex
            THEN rest
            ELSE IF get_property(fields, "_phong") = Some("1")
                 THEN LET folded == PhongFold(vertex, plane_vertices, i + 1)
                      IN <<[folded EXCEPT !.normal = normalize(folded.normal)]>> \o rest
                 ELSE <<vertex>> \o rest

\* lines 380-388: the vertices less their centre, each times the same positive
\* whole number (the number of vertices times the common denominator)
RECURSIVE CommonDen(_, _)
CommonDen(vertices, n) ==
    IF n = 0 THEN 1 ELSE Lcm(vertices[n].vertex.den, CommonDen(vertices, n - 1))

RECURSIVE SumOver(_, _, _)
SumOver(vertices, den, n) ==
    IF n = 0 THEN <<0, 0, 0>>
    ELSE Plus(Times(den \div vertices[n].vertex.den, vertices[n].vertex.num),
              SumOver(vertices, den, n - 1))

LocalVertex(vertices, k) ==
    LET den == CommonDen(vertices, Len(vertices))
        count == IF Len(vertices) > 1 THEN Len(vertices) ELSE 1
    IN Minus(Times(count * (den \div vertices[k].vertex.den), vertices[k].vertex.num),
             SumOver(vertices, den, Len(vertices)))

\* lines 390-391 and 398-402: <<pu, pv>> of a local vertex, both times the
\* lengths of the normal and of points[1] - points[0]
Projection(plane, local) ==
    LET n == normal(plane)
        u == Minus(plane.points[2], plane.points[1])
    IN <<n.den * Dot(local, u), Dot(local, Cross(n.num, u))>>

\* f32::atan2(pv, pu) is less for a than for b; the angle is in (-pi, pi]
AngleSector(a) ==
    IF a[2] < 0 THEN 0 ELSE IF a[2] > 0 THEN 2 ELSE IF a[1] >= 0 THEN 1 ELSE 3

AngleLess(a, b) ==
    \/ AngleSector(a) < AngleSector(b)
    \/ /\ AngleSector(a) = AngleSector(b)
       /\ AngleSector(a) \in {0, 2}
       /\ a[1] * b[2] - a[2] * b[1] > 0

\* lines 394-408: the comparator says Less when the angle of b is less
ComesBefore(plane, vertices, a, b) ==
    AngleLess(Projection(plane, LocalVertex(vertices, b)),
              Projection(plane, LocalVertex(vertices, a)))

\* slice::sort_by, a stable sort: the order of the first n indices of vertices
RECURSIVE SortedOrder(_, _, _)
InsertInOrder(plane, vertices, order, k) ==
    LET after == {j \in 1..Len(order) : ComesBefore(plane, vertices, k, order[j])}
        at == IF after = {} THEN Len(order) + 1
              ELSE CHOOSE j \in after : \A m \in after : j <= m
    IN SubSeq(order, 1, at - 1) \o <<k>> \o SubSeq(order, at, Len(order))

SortedOrder(plane, vertices, n) ==
    IF n = 0 THEN <<>>
    ELSE InsertInOrder(plane, vertices, SortedOrder(plane, vertices, n - 1), n)

\* the vertices left as unique_vertices has them
unsorted(plane, vertices) == vertices

\* lines 393-413: wound_vertices, moved back by the centre
sort_by(plane, vertices) ==
    LET order == SortedOrder(plane, vertices, Len(vertices))
    IN [k \in 1..Len(vertices) |-> vertices[order[k]]]

\* lines 415-422: the fan, reversed
RECURSIVE Fan(_, _)
Fan(len, i) ==
    IF i > len - 3 THEN <<>> ELSE <<0, i + 1, i + 2>> \o Fan(len, i + 1)

Reverse(s) == [k \in 1..Len(s) |-> s[Len(s) + 1 - k]]

Indices(len) == IF len < 3 THEN <<>> ELSE Reverse(Fan(len, 0))

\* convert.rs quake_direction_to_bevy_direction: a quarter turn about -x
quake_direction_to_bevy_direction(dir) == <<dir[1], dir[3], 0 - dir[2]>>

\* convert.rs quake_point_to_bevy_point
quake_point_to_bevy_point(point, inverse_scale_factor) ==
    Point(quake_direction_to_bevy_direction(point.num), point.den * inverse_scale_factor)

\* PlaneGeometry::new
PlaneGeometryNew(vertices, indices) ==
    [vertices |-> [k \in 1..Len(vertices) |->
                      [vertex |-> quake_point_to_bevy_point(vertices[k].vertex, 16),
                       normal |-> quake_direction_to_bevy_direction(vertices[k].normal)]],
     indices |-> indices]

\* brush_plane::build for the plane planes[face]; beside the PlaneGeometry it
\* returns, the record keeps plane_vertices and world_vertices
BrushPlaneBuild(fields, planes, face) ==
    LET plane == planes[face]
        plane_vertices == PlaneVertices(fields, planes, plane, 0)
        unique_vertices == UniqueVertices(fields, plane_vertices, 1)
        world_vertices == sort_by(plane, unique_vertices)
    IN [face |-> face,
        plane_vertices |-> plane_vertices,
        world_vertices |-> world_vertices,
        geometry |-> PlaneGeometryNew(world_vertices, Indices(Len(world_vertices)))]

\* ---- the brushes and entities the faces are built for ----

\* the largest edge of a box, and the largest pyramid
MaxSize == 2

Sizes == 1..MaxSize

\* the plane through p0 that holds the directions e1 and e2 and has the
\* normal e2 x e1; its second point lies along e1, or along e1 + e2
PlaneFrom(p0, e1, e2, skew) ==
    [points |-> <<p0, Plus(p0, IF skew THEN Plus(e1, e2) ELSE e1), Plus(p0, e2)>>]

\* the box from the origin to <<a, b, c>>
Box(a, b, c, skew) ==
    <<PlaneFrom(<<a, 0, 0>>, <<0, 0, 1>>, <<0, 1, 0>>, skew),
      PlaneFrom(<<0, 0, 0>>, <<0, 1, 0>>, <<0, 0, 1>>, skew),
      PlaneFrom(<<0, b, 0>>, <<1, 0, 0>>, <<0, 0, 1>>, skew),
      PlaneFrom(<<0, 0, 0>>, <<0, 0, 1>>, <<1, 0, 0>>, skew),
      PlaneFrom(<<0, 0, c>>, <<0, 1, 0>>, <<1, 0, 0>>, skew),
      PlaneFrom(<<0, 0, 0>>, <<1, 0, 0>>, <<0, 1, 0>>, skew)>>

\* the upright plane 3x + 4y = 3a + 4y0, which cuts a corner off the box
\* (y0 < b) or touches its edge (y0 = b)
Cut(a, y0, skew) == PlaneFrom(<<a, y0, 0>>, <<4, 0 - 3, 0>>, <<0, 0, 1>>, skew)

\* the pyramid with its apex at <<0, 0, 4s>> over the square base of side 6s
Pyramid(s, skew) ==
    <<PlaneFrom(<<0, 0, 0>>, <<1, 0, 0>>, <<0, 1, 0>>, skew),
      PlaneFrom(<<0, 0, 4 * s>>, <<0, 1, 0>>, <<3, 0, 0 - 4>>, skew),
      PlaneFrom(<<0, 0, 4 * s>>, <<0, 3, 0 - 4>>, <<1, 0, 0>>, skew),
      PlaneFrom(<<0, 0, 4 * s>>, <<0, 1, 0>>, <<3, 0, 4>>, skew),
      PlaneFrom(<<0, 0, 4 * s>>, <<0, 3, 4>>, <<1, 0, 0>>, skew)>>

\* the level plane that touches the apex
Cap(s, skew) == PlaneFrom(<<0, 0, 4 * s>>, <<0, 1, 0>>, <<1, 0, 0>>, skew)

Reversed(planes) == [k \in 1..Len(planes) |-> planes[Len(planes) + 1 - k]]

Shapes(skew) ==
    {Box(a, b, b, skew) : a \in Sizes, b \in Sizes}
    \cup UNION {{Box(a, b, b, skew) \o <<Cut(a, y0, skew)>> : y0 \in 0..b} :
                    a \in Sizes, b \in Sizes}
    \cup {Pyramid(s, skew) : s \in Sizes}
    \cup {Pyramid(s, skew) \o <<Cap(s, skew)>> : s \in Sizes}

BrushChoices ==
    LET shapes == Shapes(FALSE) \cup Shapes(TRUE)
    IN shapes \cup {Reversed(planes) : planes \in shapes}

\* the fields of the entity that brush_plane::build reads
EntityFields ==
    {{}, {<<"_phong", "0">>}, {<<"_phong", "1">>},
     {<<"_phong", "1">>, <<"_phong_angle", "60">>},
     {<<"_phong", "1">>, <<"_phong_angle", "soft">>}}

NotBuilt ==
    [face |-> 0, plane_vertices |-> <<>>, world_vertices |-> <<>>,
     geometry |-> [vertices |-> <<>>, indices |-> <<>>]]

\* the brushes of the catalogue whose planes are each given by three points
\* that span a plane
ProperBrushes == {b \in BrushChoices : \A k \in 1..Len(b) : Proper(b[k])}

\* brush::build calls brush_plane::build for the planes of the brush in turn
BuildPlane ==
    /\ built.face < Len(brush_planes)
    /\ built' = BrushPlaneBuild(entity_fields, brush_planes, built.face + 1)
    /\ UNCHANGED <<brush_planes, entity_fields>>
    /\ UNCHANGED <<time_vars, ctrl_vars, parse_vars, tween_vars, sched_vars>>

GeometryNext == BuildPlane

(***************************************************************************)
(*                       Properties of the faces                           *)
(***************************************************************************)

\* the point lies on the plane
OnPlane(point, plane) ==
    Dot(PlaneCross(plane), point.num) = dist(plane) * point.den

\* normal . v - dist <= CMP_EPSILON
WithinEpsilon(point, plane) ==
    LET n == normal(plane)
    IN (Dot(n.num, point.num) - dist(plane) * point.den) * CMP_EPSILON.den
         <= CMP_EPSILON.num * n.den * point.den

InBrush(point) ==
    \A k \in 1..Len(brush_planes) : WithinEpsilon(point, brush_planes[k])

\* the three planes meet in one point
MeetInPoint(p0, p1, p2) ==
    Dot(Cross(PlaneCross(p0), PlaneCross(p1)), PlaneCross(p2)) # 0

\* a vertex of the returned PlaneGeometry, taken back to the space of the map
MapSpace(point) ==
    Point(<<point.num[1] * 16, 0 - point.num[3] * 16, point.num[2] * 16>>, point.den)

Emitted ==
    {MapSpace(built.geometry.vertices[k].vertex) : k \in 1..Len(built.geometry.vertices)}

\* the intersections of the face's plane with two planes that fall outside the brush
Outside ==
    {c.val : c \in {c \in {intersect_brush_planes(brush_planes[built.face],
                                                   brush_planes[i], brush_planes[j]) :
                              i \in 1..Len(brush_planes), j \in 1..Len(brush_planes)} :
                       c.some /\ ~InBrush(c.val)}}

\* C8: every vertex emitted for a face is the point where the face's plane
\* meets two other planes of the brush and is within CMP_EPSILON of the inner
\* side of every plane of the brush; no intersection that is further outside
\* a plane is emitted.
C8_HullVertices ==
    built.face > 0 =>
        LET plane == brush_planes[built.face]
            others == (1..Len(brush_planes)) \ {built.face}
        IN /\ \A v \in Emitted :
                /\ \E i \in others, j \in others :
                      /\ i # j
                      /\ MeetInPoint(plane, brush_planes[i], brush_planes[j])
                      /\ OnPlane(v, plane)
                      /\ OnPlane(v, brush_planes[i])
                      /\ OnPlane(v, brush_planes[j])
                /\ InBrush(v)
           /\ Emitted \cap Outside = {}
           /\ Emitted = {built.world_vertices[k].vertex : k \in 1..Len(built.world_vertices)}

\* a face is built with three vertices or more, and an intersection was discarded
C8_Witness ==
    built.face > 0 /\ Cardinality(Emitted) >= 3 /\ Outside # {}

RECURSIVE SumNormals(_, _)
SumNormals(candidates, n) ==
    IF n = 0 THEN <<0, 0, 0>>
    ELSE Plus(candidates[n].normal, SumNormals(candidates, n - 1))

\* the candidates of the last build at the position of the vertex
Duplicates(vertex) == SelectSeq(built.plane_vertices, LAMBDA c : c.vertex = vertex.vertex)

\* equal but for the rounding of normalize()
Close(a, b) == \A k \in 1..3 : Abs(a[k] - b[k]) <= 2

\* C9: with _phong "1", the vertex kept for a position that more than one
\* plane pair produced has the normalised sum of the normals of all the
\* candidates at that position; without _phong "1" every vertex has the
\* normal of the face's plane.
C9_PhongAggregates ==
    built.face > 0 =>
        \A k \in 1..Len(built.world_vertices) :
            LET vertex == built.world_vertices[k]
                duplicates == Duplicates(vertex)
            IN IF get_property(entity_fields, "_phong") = Some("1")
               THEN Len(duplicates) > 1 =>
                        Close(vertex.normal,
                              normalize(SumNormals(duplicates, Len(duplicates))))
               ELSE vertex.normal = UnitNormal(brush_planes[built.face])

\* the angle of the k-th vertex of the last build about the centre
Angle(k) ==
    Projection(brush_planes[built.face], LocalVertex(built.world_vertices, k))

\* which way the triangle (0, i + 1, i + 2) of the fan turns about the normal
Winding(i) ==
    LET w == built.world_vertices
        a == LocalVertex(w, 1)
        b == LocalVertex(w, i + 2)
        c == LocalVertex(w, i + 3)
        turn == Dot(Cross(Minus(b, a), Minus(c, a)), PlaneCross(brush_planes[built.face]))
    IN IF turn > 0 THEN 1 ELSE IF turn < 0 THEN 0 - 1 ELSE 0

\* C10: the vertices of a built face are in non-increasing order of the angle
\* atan2(v . v_axis, v . u_axis) about the centre, and all triangles
\* (0, i + 1, i + 2) of the fan turn the same way about the face's normal.
C10_WindingSort ==
    built.face > 0 =>
        LET len == Len(built.world_vertices)
        IN /\ \A k \in 1..(len - 1) : ~AngleLess(Angle(k), Angle(k + 1))
           /\ \A i \in 0..(len - 3) : Winding(i) = Winding(0) /\ Winding(i) # 0
           /\ built.geometry.indices = Indices(len)

\* a face of four vertices or more that the sort has reordered
C10_Witness ==
    /\ built.face > 0
    /\ Len(built.world_vertices) >= 4
    /\ built.world_vertices # UniqueVertices(entity_fields, built.plane_vertices, 1)

(***************************************************************************)
(*                      tween::tweenable (tweenable.rs)                    *)
(*                                                                         *)
(* A Duration is a whole number of time units. The progress of a tween and *)
(* the factor handed to its lens are in units of 1/duration of the tween:  *)
(* a factor of duration is 1.0.                                            *)
(***************************************************************************)

\* TotalDuration
Finite(d) == [finite |-> TRUE, d |-> d]
Infinite == [finite |-> FALSE, d |-> 0]

\* RepeatCount, as compute_total_duration matches it
RepeatFinite(times) == [count |-> "Finite", n |-> times]
RepeatFor(d) == [count |-> "For", n |-> d]
RepeatInfinite == [count |-> "Infinite", n |-> 0]

\* compute_total_duration with RepeatCount::Infinite taken for one iteration
total_duration_once(duration, count) ==
    CASE count.count = "Finite" -> Finite(duration * count.n)
      [] count.count = "For" -> Finite(count.n)
      [] count.count = "Infinite" -> Finite(duration)

\* compute_total_duration
compute_total_duration(duration, count) ==
    CASE count.count = "Finite" -> Finite(duration * count.n)
      [] count.count = "For" -> Finite(count.n)
      [] count.count = "Infinite" -> Infinite

\* AnimClock::times_completed
AnimClock_times_completed(clock) == clock.elapsed \div clock.duration

\* AnimClock::state
AnimClock_state(clock) ==
    IF clock.total_duration.finite /\ clock.elapsed >= clock.total_duration.d
    THEN "Completed"
    ELSE "Active"

\* AnimClock::set_elapsed lines 135-147: the elapsed time kept and the state
\* returned for the elapsed time asked for
AnimClock_clamp(clock, elapsed) ==
    IF clock.total_duration.finite /\ elapsed >= clock.total_duration.d
    THEN [elapsed |-> clock.total_duration.d, state |-> "Completed"]
    ELSE [elapsed |-> elapsed, state |-> "Active"]

\* AnimClock::set_elapsed lines 133 and 149: the result, given the clock with
\* its new elapsed time and the times completed before
AnimClock_result(clock, st, old_times_completed) ==
    [clock |-> clock, state |-> st,
     times_completed |-> AnimClock_times_completed(clock) - old_times_completed]

\* AnimClock::set_elapsed
AnimClock_set_elapsed(clock, elapsed) ==
    AnimClock_result([clock EXCEPT !.elapsed = AnimClock_clamp(clock, elapsed).elapsed],
                     AnimClock_clamp(clock, elapsed).state,
                     AnimClock_times_completed(clock))

\* AnimClock::tick
AnimClock_tick(clock, tick_) == AnimClock_set_elapsed(clock, clock.elapsed + tick_)

\* AnimClock::reset
AnimClock_reset(clock) == [clock EXCEPT !.elapsed = 0]

\* TweeningDirection and its Not
Flip(direction) == IF direction = "Forward" THEN "Backward" ELSE "Forward"

\* Tween::new(..).with_repeat_count(count).with_repeat_strategy(strategy), and
\* with_completed_event(user_data) when event_data is Some(user_data)
TweenNew(duration, count, strategy, event_data) ==
    [clock |-> [elapsed |-> 0, duration |-> duration,
                total_duration |-> compute_total_duration(duration, count),
                strategy |-> strategy],
     direction |-> "Forward",
     event_data |-> event_data]

\* Tween::progress with fraction_progress
Tween_progress(t) ==
    IF t.clock.total_duration.finite /\ t.clock.elapsed >= t.clock.total_duration.d
    THEN t.clock.duration
    ELSE t.clock.elapsed % t.clock.duration

\* Tween::tick lines 633-636: the progress and the times completed that count
\* for the direction
TickProgress(t, r) ==
    IF r.state = "Active"
    THEN [progress |-> Tween_progress(t), times |-> r.times_completed]
    ELSE [progress |-> t.clock.duration, times |-> Max(r.times_completed, 1) - 1]

\* Tween::tick lines 642-646: the factor the lens gets (the ease function is
\* applied to it)
Factor(t, progress) ==
    IF t.direction = "Backward" THEN t.clock.duration - progress ELSE progress

\* Tween::tick lines 647-663, for the tween t with its clock ticked and its
\* direction set, the clock's result r and the progress p
Tween_tick_apply(t, r, p) ==
    [tween |-> t,
     state |-> r.state,
     lerp |-> Some(Factor(t, p)),
     sent |-> IF r.times_completed > 0 /\ t.event_data.some
              THEN <<t.event_data.val>> ELSE <<>>]

\* Tween::tick lines 637-639, for the result r of the clock and the progress
\* and times pt
Tween_tick_direction(t, r, pt) ==
    Tween_tick_apply(
        [t EXCEPT !.clock = r.clock,
                  !.direction = IF t.clock.strategy = "MirroredRepeat" /\ pt.times % 2 # 0
                                THEN Flip(@) ELSE @],
        r, pt.progress)

\* Tween::tick lines 632-636, for the result r of the clock
Tween_tick_clock(t, r) ==
    Tween_tick_direction(t, r, TickProgress([t EXCEPT !.clock = r.clock], r))

\* Tween::tick: [tween, state, lerp, sent], lerp being the factor the lens was
\* called with, if it was, and sent the user_data of the events sent
Tween_tick(t, delta) ==
    IF AnimClock_state(t.clock) = "Completed"
    THEN [tween |-> t, state |-> "Completed", lerp |-> None, sent |-> <<>>]
    ELSE Tween_tick_clock(t, AnimClock_tick(t.clock, delta))

\* Tween::set_elapsed
Tween_set_elapsed(t, elapsed) ==
    [t EXCEPT !.clock = AnimClock_set_elapsed(t.clock, elapsed).clock]

\* Tween::rewind lines 672-676: the completions that count for the direction
RewindTimes(clock) ==
    IF AnimClock_state(clock) = "Completed"
    THEN AnimClock_times_completed(clock) - 1
    ELSE AnimClock_times_completed(clock)

\* Tween::rewind
Tween_rewind(t) ==
    [t EXCEPT !.direction = IF t.clock.strategy = "MirroredRepeat" /\ RewindTimes(t.clock) % 2 # 0
                            THEN Flip(@) ELSE @,
              !.clock = AnimClock_reset(@)]

\* ---- the tweenables: [kind, tweens, index, duration, elapsed] ----
\* A Tween is held as the one element of tweens; the other fields are those
\* of Sequence (tweens, index, duration, elapsed) and Tracks (tracks,
\* duration, elapsed). Sequence::index counts from 0, tweens[index + 1] being
\* the current tween.

\* most children of a Sequence or Tracks
MaxTweens == 2

\* iter().map(Tweenable::duration).sum() and .max() of Sequence::new, Tracks::new
RECURSIVE SumDurations(_, _)
SumDurations(items, k) ==
    IF k = 0 THEN 0 ELSE items[k].clock.duration + SumDurations(items, k - 1)

RECURSIVE MaxDuration(_, _)
MaxDuration(items, k) ==
    IF k = 0 THEN 0 ELSE Max(items[k].clock.duration, MaxDuration(items, k - 1))

\* a Tween owned by the animator
Single(t) == [kind |-> "Tween", tweens |-> <<t>>, index |-> 0, duration |-> 0, elapsed |-> 0]

\* Sequence::new
Sequence_new(items) ==
    [kind |-> "Sequence", tweens |-> items, index |-> 0,
     duration |-> SumDurations(items, Len(items)), elapsed |-> 0]

\* Tracks::new
Tracks_new(items) ==
    [kind |-> "Tracks", tweens |-> items, index |-> 0,
     duration |-> MaxDuration(items, Len(items)), elapsed |-> 0]

\* Tweenable::duration
Duration(tw) == IF tw.kind = "Tween" THEN tw.tweens[1].clock.duration ELSE tw.duration

\* Tweenable::total_duration
TotalDuration(tw) ==
    IF tw.kind = "Tween" THEN tw.tweens[1].clock.total_duration ELSE Finite(tw.duration)

\* Tweenable::elapsed
Elapsed(tw) == IF tw.kind = "Tween" THEN tw.tweens[1].clock.elapsed ELSE tw.elapsed

\* the target after the lens of tween k was called with r.lerp, if it was
Lerp(tg, k, r) == IF r.lerp.some THEN [tg EXCEPT ![k] = r.lerp.val] ELSE tg

\* Sequence::set_elapsed lines 785-801: the loop over the tweens
RECURSIVE Sequence_seek(_, _, _, _)
Sequence_seek(s, elapsed, index, accum_duration) ==
    IF index >= Len(s.tweens) THEN [s EXCEPT !.index = Len(s.tweens)]
    ELSE IF elapsed < accum_duration + s.tweens[index + 1].clock.duration
    THEN [s EXCEPT !.index = index,
                   !.tweens[index + 1] = Tween_set_elapsed(@, elapsed - accum_duration)]
    ELSE Sequence_seek([s EXCEPT !.tweens[index + 1] = Tween_set_elapsed(@, @.clock.duration)],
                       elapsed, index + 1,
                       accum_duration + s.tweens[index + 1].clock.duration)

\* Sequence::set_elapsed
Sequence_set_elapsed(s, elapsed) == Sequence_seek([s EXCEPT !.elapsed = elapsed], elapsed, 0, 0)

\* Sequence::tick lines 816-828: the while loop; tween_remaining and r are
\* those of the current tween
RECURSIVE Sequence_while(_, _, _, _, _)
Sequence_ticked(s, delta, tg, sent, applied, tween_remaining, r) ==
    IF r.state = "Active"
    THEN [tw |-> [s EXCEPT !.tweens[s.index + 1] = r.tween], state |-> "Active",
          target |-> Lerp(tg, s.index + 1, r), applied |-> applied \/ r.lerp.some,
          sent |-> sent \o r.sent]
    ELSE Sequence_while([s EXCEPT !.tweens[s.index + 1] = Tween_rewind(r.tween),
                                  !.index = @ + 1],
                        delta - tween_remaining, Lerp(tg, s.index + 1, r), sent \o r.sent,
                        applied \/ r.lerp.some)

Sequence_while(s, delta, tg, sent, applied) ==
    IF s.index < Len(s.tweens)
    THEN Sequence_ticked(s, delta, tg, sent, applied,
             s.tweens[s.index + 1].clock.duration - s.tweens[s.index + 1].clock.elapsed,
             Tween_tick(s.tweens[s.index + 1], delta))
    ELSE [tw |-> s, state |-> "Completed", target |-> tg, applied |-> applied, sent |-> sent]

\* Sequence::tick
Sequence_tick(s, delta, tg) ==
    Sequence_while([s EXCEPT !.elapsed = Min(@ + delta, s.duration)], delta, tg, <<>>, FALSE)

\* Sequence::rewind and Tracks::rewind
Children_rewind(s) ==
    [s EXCEPT !.elapsed = 0, !.index = 0,
              !.tweens = [k \in 1..Len(s.tweens) |-> Tween_rewind(s.tweens[k])]]

\* Tracks::set_elapsed
Tracks_set_elapsed(s, elapsed) ==
    [s EXCEPT !.elapsed = elapsed,
              !.tweens = [k \in 1..Len(s.tweens) |-> Tween_set_elapsed(s.tweens[k], elapsed)]]

\* Tracks::tick lines 892-901: the loop over the tracks, r being the result of
\* ticking track k
RECURSIVE Tracks_for(_, _, _, _, _, _, _)
Tracks_ticked(s, delta, k, tg, sent, any_active, applied, r) ==
    Tracks_for([s EXCEPT !.tweens[k] = r.tween], delta, k + 1, Lerp(tg, k, r),
               sent \o r.sent, any_active \/ r.state = "Active", applied \/ r.lerp.some)

Tracks_for(s, delta, k, tg, sent, any_active, applied) ==
    IF k <= Len(s.tweens)
    THEN Tracks_ticked(s, delta, k, tg, sent, any_active, applied, Tween_tick(s.tweens[k], delta))
    ELSE [tw |-> s, state |-> IF any_active THEN "Active" ELSE "Completed",
          target |-> tg, applied |-> applied, sent |-> sent]

\* Tracks::tick
Tracks_tick(s, delta, tg) ==
    Tracks_for([s EXCEPT !.elapsed = Min(@ + delta, s.duration)], delta, 1, tg, <<>>,
               FALSE, FALSE)

\* Tween::tick on the tween the animator owns
Single_tick(tw, tg, r) ==
    [tw |-> [tw EXCEPT !.tweens[1] = r.tween], state |-> r.state,
     target |-> Lerp(tg, 1, r), applied |-> r.lerp.some, sent |-> r.sent]

\* Tweenable::tick: [tw, state, target, applied, sent]
Tweenable_tick(tw, delta, tg) ==
    CASE tw.kind = "Tween" -> Single_tick(tw, tg, Tween_tick(tw.tweens[1], delta))
      [] tw.kind = "Sequence" -> Sequence_tick(tw, delta, tg)
      [] tw.kind = "Tracks" -> Tracks_tick(tw, delta, tg)

\* Tweenable::set_elapsed
Tweenable_set_elapsed(tw, elapsed) ==
    CASE tw.kind = "Tween" -> [tw EXCEPT !.tweens[1] = Tween_set_elapsed(@, elapsed)]
      [] tw.kind = "Sequence" -> Sequence_set_elapsed(tw, elapsed)
      [] tw.kind = "Tracks" -> Tracks_set_elapsed(tw, elapsed)

\* Tweenable::set_progress, the progress in halves: duration().mul_f32(progress)
Tweenable_set_progress(tw, halves) == Tweenable_set_elapsed(tw, (Duration(tw) * halves) \div 2)

\* Tweenable::rewind
Tweenable_rewind(tw) ==
    IF tw.kind = "Tween" THEN [tw EXCEPT !.tweens[1] = Tween_rewind(@)] ELSE Children_rewind(tw)

\* ---- the tweenables and the calls of the model ----

\* most calls on the tweenable in one behaviour
MaxCalls == 4

Durations == {2, 3}
RepeatCounts == {RepeatFinite(1), RepeatFinite(2), RepeatFinite(3), RepeatFor(5), RepeatInfinite}
Strategies == {"Repeat", "MirroredRepeat"}
EventData == {None, Some(42)}
Deltas == {0, 1, 2, 5}
ElapsedTimes == {0, 1, 2, 3, 4, 7}
Halves == {0, 1, 2, 3}

\* what the tweenable is built from: a Tween of any repeat count, or a
\* Sequence or Tracks of tweens that play once and raise an event
TweenConfigs ==
    [kind : {"Tween"}, durations : [1..1 -> Durations], count : RepeatCounts,
     strategy : Strategies, event_data : EventData]
    \cup
    [kind : {"Sequence", "Tracks"},
     durations : UNION {[1..n -> Durations] : n \in 1..MaxTweens},
     count : {RepeatFinite(1)}, strategy : {"Repeat"}, event_data : {Some(42)}]

ConfigTweens(cfg) ==
    [k \in 1..Len(cfg.durations) |->
        TweenNew(cfg.durations[k], cfg.count, cfg.strategy, cfg.event_data)]

\* the tweenable built from a configuration
Build(cfg) ==
    CASE cfg.kind = "Tween" -> Single(ConfigTweens(cfg)[1])
      [] cfg.kind = "Sequence" -> Sequence_new(ConfigTweens(cfg))
      [] cfg.kind = "Tracks" -> Tracks_new(ConfigTweens(cfg))

\* the target before any lens wrote to it
TargetStart == [k \in 1..MaxTweens |-> 0 - 1]

TweenWatchStart(cfg) ==
    [config |-> cfg, calls |-> 0, op |-> "none", delta |-> 0, returned |-> "none",
     iterations |-> 0, raised |-> 0, sought |-> FALSE, after_seek |-> FALSE,
     unchanged |-> TRUE, applied |-> FALSE, sent |-> 0]

\* the endpoints k * d the elapsed time passed on its way from old to new
Crossings(old, new, d) == Cardinality({k \in 1..(new \div d) : old < k * d})

\* the iterations the tweens of the tweenable completed between two states
RECURSIVE Iterations(_, _, _)
Iterations(before, after, k) ==
    IF k = 0 THEN 0
    ELSE Crossings(before.tweens[k].clock.elapsed, after.tweens[k].clock.elapsed,
                   after.tweens[k].clock.duration)
         + Iterations(before, after, k - 1)

\* the history after a tick(delta) with the result r
TickWatch(w, tw, delta, r) ==
    [w EXCEPT !.calls = @ + 1, !.op = "tick", !.delta = delta, !.returned = r.state,
              !.iterations = @ + Iterations(tw, r.tw, Len(tw.tweens)),
              !.raised = @ + Len(r.sent),
              !.sought = FALSE, !.after_seek = w.sought,
              !.unchanged = (r.tw = tw), !.applied = r.applied, !.sent = Len(r.sent)]

\* the history after set_elapsed, set_progress or rewind; sought says that the
\* elapsed time asked for is the duration of the tweenable or more
SeekWatch(w, op, sought) ==
    [w EXCEPT !.calls = @ + 1, !.op = op, !.sought = sought, !.after_seek = FALSE]

\* Tweenable::tick(delta, ..), as the animator system or the user calls it
Tick ==
    /\ tween_watch.calls < MaxCalls
    /\ \E delta \in Deltas :
          LET r == Tweenable_tick(tweenable, delta, target)
          IN /\ tweenable' = r.tw
             /\ target' = r.target
             /\ completed_events' = completed_events \o r.sent
             /\ tween_watch' = TickWatch(tween_watch, tweenable, delta, r)
    /\ UNCHANGED <<time_vars, ctrl_vars, parse_vars, geom_vars, sched_vars>>

\* Tweenable::set_elapsed(elapsed)
SetElapsed ==
    /\ tween_watch.calls < MaxCalls
    /\ \E elapsed \in ElapsedTimes :
          /\ tweenable' = Tweenable_set_elapsed(tweenable, elapsed)
          /\ tween_watch' = SeekWatch(tween_watch, "set_elapsed", elapsed >= Duration(tweenable))
    /\ UNCHANGED <<target, completed_events>>
    /\ UNCHANGED <<time_vars, ctrl_vars, parse_vars, geom_vars, sched_vars>>

\* Tweenable::set_progress(progress)
SetProgress ==
    /\ tween_watch.calls < MaxCalls
    /\ \E halves \in Halves :
          /\ tweenable' = Tweenable_set_progress(tweenable, halves)
          /\ tween_watch' = SeekWatch(tween_watch, "set_progress", FALSE)
    /\ UNCHANGED <<target, completed_events>>
    /\ UNCHANGED <<time_vars, ctrl_vars, parse_vars, geom_vars, sched_vars>>

\* Tweenable::rewind()
Rewind ==
    /\ tween_watch.calls < MaxCalls
    /\ tweenable' = Tweenable_rewind(tweenable)
    /\ tween_watch' = SeekWatch(tween_watch, "rewind", FALSE)
    /\ UNCHANGED <<target, completed_events>>
    /\ UNCHANGED <<time_vars, ctrl_vars, parse_vars, geom_vars, sched_vars>>

TweenNext == Tick \/ SetElapsed \/ SetProgress \/ Rewind

(***************************************************************************)
(*                      Properties of the tweenables                       *)
(***************************************************************************)

\* the tweenable is a Tween that loops: it plays more than one iteration
Looping ==
    tween_watch.config.kind = "Tween" /\ tween_watch.config.count # RepeatFinite(1)

\* C11: for a looping Tween with a completed event set, the number of
\* TweenCompleted events raised by the tick() calls so far equals the number
\* of iterations the tween completed in them, whatever the deltas, and each
\* event carries the user_data unmodified.
C11_EventPerIteration ==
    (Looping /\ tween_watch.config.event_data.some) =>
        /\ tween_watch.raised = tween_watch.iterations
        /\ \A k \in 1..Len(completed_events) :
              completed_events[k] = tween_watch.config.event_data.val

\* C12: a Tween configured with RepeatCount::Infinite never reaches
\* TweenState::Completed: every tick(), for any delta and after any
\* set_elapsed(), set_progress() or rewind(), returns TweenState::Active.
C12_InfiniteNeverCompletes ==
    (tween_watch.config.kind = "Tween" /\ tween_watch.config.count = RepeatInfinite) =>
        /\ tween_watch.returned # "Completed"
        /\ AnimClock_state(tweenable.tweens[1].clock) = "Active"

\* an infinite tween sought far past its duration and then ticked
C12_Witness ==
    /\ tween_watch.config.kind = "Tween" /\ tween_watch.config.count = RepeatInfinite
    /\ tween_watch.op = "tick" /\ tween_watch.after_seek
    /\ tween_watch.returned = "Active"
    /\ Elapsed(tweenable) >= 3 * Duration(tweenable)

\* C13: while a looping tween is still running, elapsed() never reaches the
\* value of duration(); once the tweenable has completed (its last tick()
\* returned Completed), elapsed() equals duration().
C13_ElapsedWithinDuration ==
    /\ (Looping /\ AnimClock_state(tweenable.tweens[1].clock) = "Active") =>
          Elapsed(tweenable) < Duration(tweenable)
    /\ (tween_watch.op = "tick" /\ tween_watch.returned = "Completed") =>
          Elapsed(tweenable) = Duration(tweenable)

\* C14: for every tweenable, after set_elapsed(e) with e greater than or equal
\* to duration(), the next tick() returns TweenState::Completed.
C14_SetElapsedCompletes ==
    (tween_watch.op = "tick" /\ tween_watch.after_seek) =>
        tween_watch.returned = "Completed"

\* C15: tick() with Duration::ZERO applies the lens (the target is updated to
\* the current position of the tweenable), leaves the tweenable's own state
\* (elapsed times, direction, sequence index, completion) as it was and
\* raises no completion event, also right after set_elapsed(),
\* set_progress() or rewind(), whatever position they were given.
C15_ZeroTick ==
    (tween_watch.op = "tick" /\ tween_watch.delta = 0) =>
        /\ tween_watch.applied
        /\ tween_watch.unchanged
        /\ tween_watch.sent = 0

(***************************************************************************)
(*      fps_controller: the system sets of the plugins (input/mod.rs,      *)
(*      ultrakill/mod.rs) and the frames the schedule runs                 *)
(***************************************************************************)

\* enum FpsControllerStages, in the order configure_sets lists them
\* (input/mod.rs:14-19, 27-31)
Stages == <<"Input", "Logic", "RenderSync">>

\* no ordering between the sets: what configure_sets would give without .chain()
unchained(sets) == {}

\* (a, b, c).chain() (input/mod.rs:27-32): each set runs before the next one
chain(sets) == {<<sets[i], sets[i + 1]>> : i \in 1..(Len(sets) - 1)}

\* the ordering configure_sets gives the schedule (input/mod.rs:26-34)
configure_sets == chain(Stages)

\* set a runs before set b: directly, or through the set between them
before(a, b) ==
    \/ <<a, b>> \in configure_sets
    \/ \E c \in {Stages[i] : i \in 1..Len(Stages)} :
          <<a, c>> \in configure_sets /\ <<c, b>> \in configure_sets

\* the systems the two plugins add to the frame's schedule
\* (input/mod.rs:41, ultrakill/mod.rs:16-17)
Systems ==
    {"controller_input", "sync_rotation_input", "temp_input_test",
     "controller_move", "debug_ui"}

\* .in_set(...) of each system; debug_ui is in no set of FpsControllerStages
in_set ==
    [s \in Systems |->
        CASE s \in {"controller_input", "sync_rotation_input", "temp_input_test"} -> "Input"
          [] s = "controller_move" -> "Logic"
          [] OTHER -> "unordered"]

\* the systems that must have finished before s may start
dependencies(s) == {t \in Systems : before(in_set[t], in_set[s])}

\* the last frame the model runs
MaxFrames == 3

\* The executor starts a system once every system ordered before it has
\* finished.  controller_move reads &FpsControllerInput
\* (ultrakill/systems.rs:19-34); the read is taken at its earliest, when the
\* system starts.
StartSystem(s) ==
    /\ systems[s] = "waiting"
    /\ \A t \in dependencies(s) : systems[t] = "done"
    /\ systems' = [systems EXCEPT ![s] = "running"]
    /\ input_read' = IF s = "controller_move" THEN input_written ELSE input_read
    /\ UNCHANGED <<frame_no, input_written>>
    /\ UNCHANGED <<time_vars, ctrl_vars, parse_vars, geom_vars, tween_vars>>

\* A running system finishes.  controller_input assigns every field of
\* &mut FpsControllerInput (input/systems.rs:47-110); the write is taken at
\* its latest, when the system finishes.
FinishSystem(s) ==
    /\ systems[s] = "running"
    /\ systems' = [systems EXCEPT ![s] = "done"]
    /\ input_written' = IF s = "controller_input" THEN frame_no ELSE input_written
    /\ UNCHANGED <<frame_no, input_read>>
    /\ UNCHANGED <<time_vars, ctrl_vars, parse_vars, geom_vars, tween_vars>>

\* every system of the frame has run: the schedule runs again, next frame
EndFrame ==
    /\ frame_no < MaxFrames
    /\ \A s \in Systems : systems[s] = "done"
    /\ systems' = [s \in Systems |-> "waiting"]
    /\ frame_no' = frame_no + 1
    /\ UNCHANGED <<input_written, input_read>>
    /\ UNCHANGED <<time_vars, ctrl_vars, parse_vars, geom_vars, tween_vars>>

ScheduleNext ==
    \/ \E s \in Systems : StartSystem(s)
    \/ \E s \in Systems : FinishSystem(s)
    \/ EndFrame

\* C16: in every frame and under every order the executor may choose, every
\* system of a set has finished before a system of a later set of the chain
\* Input, Logic, RenderSync starts: the Input systems (controller_input,
\* sync_rotation_input, temp_input_test) before controller_move, and the
\* Logic systems before a RenderSync system; so controller_move reads the
\* FpsControllerInput that controller_input wrote in the same frame.
C16_StagesInOrder ==
    /\ \A s \in Systems : \A t \in Systems :
          (<<in_set[s], in_set[t]>> \in chain(Stages) /\ systems[t] # "waiting")
              => systems[s] = "done"
    /\ systems["controller_move"] # "waiting" =>
          /\ \A s \in Systems : in_set[s] = "Input" => systems[s] = "done"
          /\ input_read = frame_no

\* controller_move runs in a later frame on the input written in that frame,
\* while the unordered debug_ui has not run yet
C16_Witness ==
    /\ frame_no > 1
    /\ systems["controller_move"] = "running"
    /\ systems["debug_ui"] = "waiting"
    /\ input_read = frame_no
(***************************************************************************)
(*                             Specifications                              *)
(***************************************************************************)

\* The state after construction: Local<TimeStopState> and Time at their
\* defaults and no event sent; the player spawned from FpsControllerBundle
\* with one of the jump times; a map text not yet parsed; a brush of an entity
\* with none of its faces built; a tweenable just built and its target not
\* yet written; the first frame of the schedule about to run.
Start(jump_times, inputs, brushes, fields, configs) ==
    /\ time_state = TimeStopStateDefault
    /\ relative_speed = SpeedOne
    /\ time_events = <<>>
    /\ stop_watch = [active |-> FALSE, d |-> 0, acc |-> 0, done |-> FALSE]
    /\ slow_watch = [active |-> FALSE, expect |-> 0]
    /\ controller \in [jump_time : jump_times]
    /\ state = FpsControllerStateNew
    /\ input = [jump |-> InputStateDefault]
    /\ velocity_y = 0
    /\ frame = FrameDefault
    /\ watch = [since_ground |-> coyote_timer_duration, since_jump |-> min_jump_duration,
                jumped |-> FALSE]
    /\ map_input \in inputs
    /\ map_parsed = [done |-> FALSE, ok |-> FALSE, map |-> NoMap]
    /\ brush_planes \in brushes
    /\ entity_fields \in fields
    /\ built = NotBuilt
    /\ tween_watch \in {TweenWatchStart(cfg) : cfg \in configs}
    /\ tweenable = Build(tween_watch.config)
    /\ target = TargetStart
    /\ completed_events = <<>>
    /\ systems = [s \in Systems |-> "waiting"]
    /\ frame_no = 1
    /\ input_written = 0
    /\ input_read = 0

\* the one brush and the one map text of the specifications that are about
\* something else
OneBrush == {Box(1, 1, 1, FALSE)}
NoInput == {<<>>}
OneTween ==
    {[kind |-> "Tween", durations |-> <<2>>, count |-> RepeatFinite(1),
      strategy |-> "Repeat", event_data |-> None]}

TimeInit == Start({0}, NoInput, OneBrush, {{}}, OneTween)

ControllerInit == Start(JumpTimes, NoInput, OneBrush, {{}}, OneTween)

ParseInit == Start({0}, Inputs, OneBrush, {{}}, OneTween)

GeometryInit == Start({0}, NoInput, ProperBrushes, EntityFields, OneTween)

TweenInit == Start({0}, NoInput, OneBrush, {{}}, TweenConfigs)

ScheduleInit == Start({0}, NoInput, OneBrush, {{}}, OneTween)

\* the time manager: events and runs of update_time
SpecTime == TimeInit /\ [][TimeNext]_vars

\* the player: frames of controller_input and controller_move
SpecController == ControllerInit /\ [][ControllerNext]_vars

\* valve_maps::parse on every input up to MaxLen symbols
SpecParse == ParseInit /\ [][ParseNext]_vars

\* brush_plane::build on the faces of the brushes of the catalogue
SpecGeometry == GeometryInit /\ [][GeometryNext]_vars

\* the calls on a tweenable: tick, set_elapsed, set_progress and rewind
SpecTween == TweenInit /\ [][TweenNext]_vars

\* the systems of FpsInputPlugin and UltrakillControllerPlugin, frame by frame
SpecSchedule == ScheduleInit /\ [][ScheduleNext]_vars

Init == Start(JumpTimes, Inputs, ProperBrushes, EntityFields, TweenConfigs)

Next ==
    TimeNext \/ ControllerNext \/ ParseNext \/ GeometryNext \/ TweenNext \/ ScheduleNext

Spec == Init /\ [][Next]_vars
====
